---- MODULE Spec2Model ----
(***************************************************************************)
(* Model of src/src/blockchain/proto/varuint.rs: the VarUint (CompactSize) *)
(* codec.  A VarUint holds `value: u64` and `buf: Vec<u8>`; it is built by *)
(* one of four From impls (u8, u16, u32, u64), parsed by read_from from a  *)
(* byte reader, and serialized by to_bytes.                                *)
(*                                                                         *)
(* Number representation.  TLC integers are 32 bits wide, so the two wide  *)
(* Rust types are kept at their full width as little-endian tuples of      *)
(* 16-bit limbs:                                                           *)
(*     u8, u16 : an integer in 0..255 / 0..65535                           *)
(*     u32     : <<l0, l1>>          = l0 + 2^16 * l1                      *)
(*     u64     : <<l0, l1, l2, l3>>  = l0 + 2^16*l1 + 2^32*l2 + 2^48*l3    *)
(* A byte is an integer in 0..255 and a byte buffer a sequence of bytes.   *)
(*                                                                         *)
(* The reader is an in-memory byte source (io::Cursor in the tests): the   *)
(* bytes `stream` and the number `pos` of bytes already consumed.  Its     *)
(* only failure is running out of bytes (UnexpectedEof).                   *)
(***************************************************************************)
EXTENDS Integers, Sequences, FiniteSets

VARIABLES
    stream,     \* the bytes of the reader
    pos,        \* bytes of `stream` consumed so far
    start,      \* value of `pos` when the last read_from was entered
    external,   \* TRUE when `stream` was opened over bytes supplied from outside
    written,    \* the VarUints whose to_bytes were appended to `stream`, in order
    parsed,     \* the VarUints returned by the successful read_from calls, in order
    vu,         \* the VarUint the caller got from the last From / read_from (or NoVarUint)
    ret,        \* the Vec<u8> returned by the last call when it was to_bytes
    res,        \* outcome of the last read_from: "Ok", "UnexpectedEof", "InvalidData"
    via,        \* the From impl the last read_from invoked, "none" if it invoked none
    log,        \* the warn! records emitted by the last call
    call        \* the last call: [op |-> name, arg |-> its input]

vars == <<stream, pos, start, external, written, parsed, vu, ret, res, via, log, call>>

\* ------------------------------------------------------------------ bounds

\* At most this many VarUints are appended to a stream by Write.
MaxItems == 2

\* ------------------------------------------------------- fixed-width integers

\* `x as u64` for x: u8 or x: u16.
u64_from_small(x) == <<x, 0, 0, 0>>

\* `x as u64` for x: u32.
u64_from_u32(x) == <<x[1], x[2], 0, 0>>

\* A literal below 2^31 as a u64.
u64_lit(n) == <<n % 65536, n \div 65536, 0, 0>>

\* a > b on u64.
u64_gt(a, b) ==
    \/ a[4] > b[4]
    \/ a[4] = b[4] /\ a[3] > b[3]
    \/ a[4] = b[4] /\ a[3] = b[3] /\ a[2] > b[2]
    \/ a[4] = b[4] /\ a[3] = b[3] /\ a[2] = b[2] /\ a[1] > b[1]

\* le::u16_to_array / u32_to_array / u64_to_array: the little-endian bytes.
le_u16_to_array(x) == <<x % 256, x \div 256>>

le_u32_to_array(x) == le_u16_to_array(x[1]) \o le_u16_to_array(x[2])

le_u64_to_array(x) ==
    le_u16_to_array(x[1]) \o le_u16_to_array(x[2])
        \o le_u16_to_array(x[3]) \o le_u16_to_array(x[4])

\* read_u16 reading big-endian.
read_u16_be(s, p) == 256 * s[p + 1] + s[p + 2]

\* ReadBytesExt::read_u16/u32/u64::<LittleEndian> on the bytes s[p+1 ..].
read_u16(s, p) == s[p + 1] + 256 * s[p + 2]

read_u32(s, p) == <<read_u16(s, p), read_u16(s, p + 2)>>

read_u64(s, p) ==
    <<read_u16(s, p), read_u16(s, p + 2), read_u16(s, p + 4), read_u16(s, p + 6)>>

\* ------------------------------------------------------------------ VarUint

NoVarUint == [value |-> <<>>, buf |-> <<>>]

\* to_bytes returning the payload without the prefix byte.
to_bytes_payload(self) == Tail(self.buf)

\* ToRaw::to_bytes: a clone of buf.
to_bytes(self) == self.buf

\* new warning from 999999 on (>= for >).
new_ge(value, buf) ==
    LET v == [value |-> value, buf |-> buf]
    IN  [v   |-> v,
         log |-> IF u64_gt(v.value, u64_lit(999998))
                   THEN <<[value |-> v.value, len |-> Len(to_bytes(v))]>>
                   ELSE <<>>]

\* VarUint::new: builds the value, then warns when value > 999999.
\* Returns the VarUint and the warn! records emitted.
new(value, buf) ==
    LET v == [value |-> value, buf |-> buf]
    IN  [v   |-> v,
         log |-> IF u64_gt(v.value, u64_lit(999999))
                   THEN <<[value |-> v.value, len |-> Len(to_bytes(v))]>>
                   ELSE <<>>]

From_u8(value) == new(u64_from_small(value), <<value>>)

\* From<u16> choosing the one-byte form for a small value.
From_u16_minimal(value) ==
    IF value <= 252 THEN From_u8(value)
    ELSE new(u64_from_small(value), <<253>> \o le_u16_to_array(value))

From_u16(value) == new(u64_from_small(value), <<253>> \o le_u16_to_array(value))

From_u32(value) == new(u64_from_u32(value), <<254>> \o le_u32_to_array(value))

\* From<u64> pushing the u32 marker.
From_u64_marker(value) == new(value, <<254>> \o le_u64_to_array(value))

From_u64(value) == new(value, <<255>> \o le_u64_to_array(value))

\* ---------------------------------------------------------------- read_from

\* The pattern 0x00...0xfb: 0xfc matches no arm but the last.
is_small_gap(first) == first >= 0 /\ first <= 251

\* The pattern 0x00...0xfd: the u16 marker is taken for a value.
is_small_wide(first) == first >= 0 /\ first <= 253

\* The first match arm's pattern, 0x00...0xfc.
is_small(first) == first >= 0 /\ first <= 252

Done(r, name, p) ==
    [res |-> "Ok", v |-> r.v, via |-> name, log |-> r.log, pos |-> {p}]

\* A failed read whose error is dropped and replaced by a zero value.
Eof_ignored(s, p) == Done(From_u8(0), "from_u8", Len(s))

\* try! on a read that ran out of bytes: the error is returned at once.
\* read_exact leaves the position anywhere between where the failed read
\* began and the end of the data.
Eof(s, p) ==
    [res |-> "UnexpectedEof", v |-> NoVarUint, via |-> "none", log |-> <<>>,
     pos |-> p .. Len(s)]

\* VarUint::read_from on the reader (s, p).
read_from(s, p) ==
    IF Len(s) - p < 1 THEN Eof(s, p)
    ELSE LET first == s[p + 1] IN
         IF is_small(first) THEN Done(From_u8(first), "from_u8", p + 1)
         ELSE IF first = 253 THEN
            IF Len(s) - (p + 1) < 2 THEN Eof(s, p + 1)
            ELSE Done(From_u16(read_u16(s, p + 1)), "from_u16", p + 3)
         ELSE IF first = 254 THEN
            IF Len(s) - (p + 1) < 4 THEN Eof(s, p + 1)
            ELSE Done(From_u32(read_u32(s, p + 1)), "from_u32", p + 5)
         ELSE IF first = 255 THEN
            IF Len(s) - (p + 1) < 8 THEN Eof(s, p + 1)
            ELSE Done(From_u64(read_u64(s, p + 1)), "from_u64", p + 9)
         ELSE [res |-> "InvalidData", v |-> NoVarUint, via |-> "none",
               log |-> <<>>, pos |-> {p + 1}]

\* ------------------------------------------------------------------- inputs

\* Inputs of the four constructors: the tests' values (250; 4444, 515;
\* 3333333333; 9000000000000000000), values on both sides of 252/253 and of
\* the warning threshold, and values narrower than their constructor's width.
U8Inputs == {250, 252, 253}

U16Inputs == {5, 515, 4444}

\* 515, 1000000, 3333333333
U32Inputs == {<<515, 0>>, <<16960, 15>>, <<41301, 50862>>}

\* 999999, 2^32, 9000000000000000000
U64Inputs == {<<16959, 15, 0, 0>>, <<0, 0, 1, 0>>, <<0, 57988, 27728, 31974>>}

\* Complete encodings as they may arrive from outside, minimal or not: the
\* edges of every size class (0, 252 | 252, 253, 65535 | 65535, 65536, 2^32-1 |
\* 2^32-1, 2^32, 2^64-1), the edges of the warning threshold (999999, 1000000)
\* and the tests' vectors.
InputFrames ==
    { <<0>>, <<250>>, <<252>>,
      <<253, 252, 0>>, <<253, 253, 0>>, <<253, 3, 2>>, <<253, 92, 17>>,
      <<253, 255, 255>>,
      <<254, 255, 255, 0, 0>>, <<254, 0, 0, 1, 0>>, <<254, 63, 66, 15, 0>>,
      <<254, 64, 66, 15, 0>>, <<254, 85, 161, 174, 198>>,
      <<254, 255, 255, 255, 255>>,
      <<255, 255, 255, 255, 255, 0, 0, 0, 0>>, <<255, 0, 0, 0, 0, 1, 0, 0, 0>>,
      <<255, 64, 66, 15, 0, 0, 0, 0, 0>>,
      <<255, 0, 0, 132, 226, 80, 108, 230, 124>>,
      <<255, 255, 255, 255, 255, 255, 255, 255, 255>> }

\* Bytes that may follow a frame in the same stream.
InputTrailers == { <<>>, <<7>>, <<253, 3>> }

\* Every stream handed to Open: each frame with each trailer, cut at every length.
InputStreams ==
    { SubSeq(f \o t, 1, n) : <<f, t, n>> \in
        { x \in InputFrames \X InputTrailers \X (0 .. 11) : x[3] <= Len(x[1] \o x[2]) } }

\* ------------------------------------------------------------------ actions

Init ==
    /\ stream = <<>>
    /\ pos = 0
    /\ start = 0
    /\ external = FALSE
    /\ written = <<>>
    /\ parsed = <<>>
    /\ vu = NoVarUint
    /\ ret = <<>>
    /\ res = "none"
    /\ via = "none"
    /\ log = <<>>
    /\ call = [op |-> "init", arg |-> 0]

\* let vu = VarUint::from(v) for v: u8; the caller keeps what it returned.
FromU8 ==
    \E v \in U8Inputs :
        /\ vu' = From_u8(v).v
        /\ log' = From_u8(v).log
        /\ call' = [op |-> "from_u8", arg |-> v]
        /\ ret' = <<>>
        /\ res' = "none"
        /\ via' = "none"
        /\ UNCHANGED <<stream, pos, start, external, written, parsed>>

\* let vu = VarUint::from(v) for v: u16.
FromU16 ==
    \E v \in U16Inputs :
        /\ vu' = From_u16(v).v
        /\ log' = From_u16(v).log
        /\ call' = [op |-> "from_u16", arg |-> v]
        /\ ret' = <<>>
        /\ res' = "none"
        /\ via' = "none"
        /\ UNCHANGED <<stream, pos, start, external, written, parsed>>

\* let vu = VarUint::from(v) for v: u32.
FromU32 ==
    \E v \in U32Inputs :
        /\ vu' = From_u32(v).v
        /\ log' = From_u32(v).log
        /\ call' = [op |-> "from_u32", arg |-> v]
        /\ ret' = <<>>
        /\ res' = "none"
        /\ via' = "none"
        /\ UNCHANGED <<stream, pos, start, external, written, parsed>>

\* let vu = VarUint::from(v) for v: u64.
FromU64 ==
    \E v \in U64Inputs :
        /\ vu' = From_u64(v).v
        /\ log' = From_u64(v).log
        /\ call' = [op |-> "from_u64", arg |-> v]
        /\ ret' = <<>>
        /\ res' = "none"
        /\ via' = "none"
        /\ UNCHANGED <<stream, pos, start, external, written, parsed>>

\* vu.to_bytes()
ToBytes ==
    /\ vu # NoVarUint
    /\ ret' = to_bytes(vu)
    /\ call' = [op |-> "to_bytes", arg |-> 0]
    /\ log' = <<>>
    /\ res' = "none"
    /\ via' = "none"
    /\ UNCHANGED <<stream, pos, start, external, written, parsed, vu>>

\* The caller appends vu.to_bytes() to the stream it is building.
Write ==
    /\ vu # NoVarUint
    /\ ~external
    /\ Len(written) < MaxItems
    /\ stream' = stream \o to_bytes(vu)
    /\ written' = Append(written, vu)
    /\ call' = [op |-> "write", arg |-> 0]
    /\ ret' = <<>>
    /\ log' = <<>>
    /\ res' = "none"
    /\ via' = "none"
    /\ UNCHANGED <<pos, start, external, parsed, vu>>

\* io::Cursor::new(bytes): instead of building the stream, the caller reads
\* bytes supplied from outside.
Open ==
    \E bytes \in InputStreams :
        /\ stream = <<>>
        /\ ~external
        /\ stream' = bytes
        /\ pos' = 0
        /\ start' = 0
        /\ external' = TRUE
        /\ written' = <<>>
        /\ parsed' = <<>>
        /\ call' = [op |-> "open", arg |-> 0]
        /\ ret' = <<>>
        /\ log' = <<>>
        /\ res' = "none"
        /\ via' = "none"
        /\ UNCHANGED vu

\* VarUint::read_from(&mut reader); the caller keeps what it returned.
ReadFrom ==
    LET r == read_from(stream, pos) IN
    /\ start' = pos
    /\ \E q \in r.pos : pos' = q
    /\ res' = r.res
    /\ vu' = r.v
    /\ via' = r.via
    /\ log' = r.log
    /\ parsed' = IF r.res = "Ok" THEN Append(parsed, r.v) ELSE parsed
    /\ call' = [op |-> "read_from", arg |-> 0]
    /\ ret' = <<>>
    /\ UNCHANGED <<stream, external, written>>

Next ==
    \/ FromU8
    \/ FromU16
    \/ FromU32
    \/ FromU64
    \/ ToBytes
    \/ Write
    \/ Open
    \/ ReadFrom

Spec == Init /\ [][Next]_vars

\* ------------------------------------------------- vocabulary of the claims
\* The size-class table of the wire format, stated on bytes and limbs
\* without the codec's own operators.

\* Bytes the prefix byte b announces after itself.
PayloadLen(b) == IF b <= 252 THEN 0 ELSE IF b = 253 THEN 2 ELSE IF b = 254 THEN 4 ELSE 8

\* The last read_from found fewer bytes than its prefix byte demands.
Truncated ==
    \/ Len(stream) - start < 1
    \/ Len(stream) - start < 1 + PayloadLen(stream[start + 1])

\* The u64 whose little-endian bytes are b[i+1 .. i+n], n in {2, 4, 8}.
LeValue(b, i, n) ==
    [k \in 1 .. 4 |->
        IF 2 * k <= n THEN b[i + 2 * k - 1] + 256 * b[i + 2 * k] ELSE 0]

\* The least number of bytes the size-class table gives a value.
CanonicalLen(v) ==
    IF v[4] # 0 \/ v[3] # 0 THEN 9
    ELSE IF v[2] # 0 THEN 5
    ELSE IF v[1] >= 253 THEN 3
    ELSE 1

Lo(x) == x % 256

Hi(x) == x \div 256

\* The unique minimal-width encoding of a value under the size-class table.
CanonicalEncoding(v) ==
    IF CanonicalLen(v) = 1 THEN <<v[1]>>
    ELSE IF CanonicalLen(v) = 3 THEN <<253, Lo(v[1]), Hi(v[1])>>
    ELSE IF CanonicalLen(v) = 5 THEN <<254, Lo(v[1]), Hi(v[1]), Lo(v[2]), Hi(v[2])>>
    ELSE <<255, Lo(v[1]), Hi(v[1]), Lo(v[2]), Hi(v[2]),
                Lo(v[3]), Hi(v[3]), Lo(v[4]), Hi(v[4])>>

\* The bytes b are a canonical encoding: a value of 0..252 in one byte, or a
\* marker followed by a value too large for the class below.
IsCanonical(b) ==
    \/ Len(b) = 1 /\ b[1] <= 252
    \/ Len(b) = 3 /\ b[1] = 253 /\ (b[3] # 0 \/ b[2] >= 253)
    \/ Len(b) = 5 /\ b[1] = 254 /\ (b[4] # 0 \/ b[5] # 0)
    \/ Len(b) = 9 /\ b[1] = 255 /\ (b[6] # 0 \/ b[7] # 0 \/ b[8] # 0 \/ b[9] # 0)

\* value > 999999, on limbs.
Large(v) == ~(v[4] = 0 /\ v[3] = 0 /\ v[2] <= 15 /\ 65536 * v[2] + v[1] <= 999999)

\* The number of bytes each constructor gives its result.
WidthLen(name) ==
    IF name = "from_u8" THEN 1 ELSE IF name = "from_u16" THEN 3
    ELSE IF name = "from_u32" THEN 5 ELSE 9

\* The last call was one of the four constructors.
Built == call.op \in {"from_u8", "from_u16", "from_u32", "from_u64"}

\* The constructor that built vu: the one called, or the one read_from invoked.
Builder == IF call.op = "read_from" THEN via ELSE call.op

\* The last call returned a VarUint.
Returned == Built \/ (call.op = "read_from" /\ res = "Ok")

RECURSIVE Flatten(_)
\* The concatenation of the encodings of a sequence of VarUints.
Flatten(ws) == IF ws = <<>> THEN <<>> ELSE to_bytes(Head(ws)) \o Flatten(Tail(ws))

RECURSIVE SumLen(_, _)
\* The total encoded length of the first k of a sequence of VarUints.
SumLen(ws, k) == IF k = 0 THEN 0 ELSE Len(ws[k].buf) + SumLen(ws, k - 1)

\* ------------------------------------------------------------------- claims

\* C1 (as stated): for every value v of every constructor width, read_from on a
\* stream holding exactly to_bytes(VarUint::from(v)) succeeds and returns a
\* VarUint whose value is v.
C1_RoundTripValue ==
    (call.op = "read_from" /\ ~external /\ Len(written) = 1 /\ start = 0)
        => (res = "Ok" /\ vu.value = written[1].value)

\* C2 (as stated): every VarUint a constructor or a successful read_from
\* returned holds the unique minimal-width encoding of its value.
C2_AlwaysMinimal == Returned => vu.buf = CanonicalEncoding(vu.value)

\* C2 (amended): every VarUint a constructor or a successful read_from returned
\* holds the encoding of the width class of the constructor that built it (1
\* byte, or marker 0xFD / 0xFE / 0xFF and 3 / 5 / 9 bytes), whatever the value;
\* that encoding is the minimal one exactly when the value lies in the class's
\* own range (0..252, 253..65535, 65536..2^32-1, 2^32 and above).
C2_WidthClassEncoding ==
    Returned =>
        /\ Len(vu.buf) = WidthLen(Builder)
        /\ Len(vu.buf) > 1 => PayloadLen(vu.buf[1]) = Len(vu.buf) - 1
        /\ (vu.buf = CanonicalEncoding(vu.value))
              <=> (Len(vu.buf) = CanonicalLen(vu.value))

\* C2 witness: From<u16> was called on 5 and holds three bytes for a value
\* whose minimal encoding has one.
C2_Witness ==
    /\ call.op = "from_u16"
    /\ vu.value = <<5, 0, 0, 0>>
    /\ Len(vu.buf) = 3
    /\ CanonicalLen(vu.value) = 1

\* C3: From<u8> yields value = v and encoded = [v]; From<u16>, From<u32> and
\* From<u64> yield value = v and encoded = the marker 0xFD / 0xFE / 0xFF followed
\* by the 2 / 4 / 8 little-endian bytes of v; the length depends on the
\* constructor alone.  The tests' vectors are spelled out.
C3_ConstructionFormat ==
    /\ call.op = "from_u8" =>
          vu = [value |-> <<call.arg, 0, 0, 0>>, buf |-> <<call.arg>>]
    /\ call.op = "from_u16" =>
          vu = [value |-> <<call.arg, 0, 0, 0>>,
                buf |-> <<253, Lo(call.arg), Hi(call.arg)>>]
    /\ call.op = "from_u32" =>
          vu = [value |-> <<call.arg[1], call.arg[2], 0, 0>>,
                buf |-> <<254, Lo(call.arg[1]), Hi(call.arg[1]),
                               Lo(call.arg[2]), Hi(call.arg[2])>>]
    /\ call.op = "from_u64" =>
          vu = [value |-> call.arg,
                buf |-> <<255, Lo(call.arg[1]), Hi(call.arg[1]),
                               Lo(call.arg[2]), Hi(call.arg[2]),
                               Lo(call.arg[3]), Hi(call.arg[3]),
                               Lo(call.arg[4]), Hi(call.arg[4])>>]
    /\ Built => Len(vu.buf) = WidthLen(call.op)
    /\ (call.op = "from_u8" /\ call.arg = 250) => vu.buf = <<250>>
    /\ (call.op = "from_u16" /\ call.arg = 4444) => vu.buf = <<253, 92, 17>>
    /\ (call.op = "from_u16" /\ call.arg = 515) => vu.buf = <<253, 3, 2>>
    /\ (call.op = "from_u32" /\ call.arg = <<41301, 50862>>)
          => vu.buf = <<254, 85, 161, 174, 198>>
    /\ (call.op = "from_u64" /\ call.arg = <<0, 57988, 27728, 31974>>)
          => vu.buf = <<255, 0, 0, 132, 226, 80, 108, 230, 124>>

\* C3 witness: From<u32> was called on 515 and returned five bytes.
C3_Witness ==
    /\ call.op = "from_u32"
    /\ call.arg = <<515, 0>>
    /\ vu.buf = <<254, 3, 2, 0, 0>>

\* C4: when the bytes at the read position are a canonical encoding (1, 3, 5 or
\* 9 bytes), read_from succeeds and to_bytes of the VarUint it returns is those
\* bytes, unchanged.
C4_RoundTripBytes ==
    call.op = "read_from" =>
        \A n \in {1, 3, 5, 9} :
            (start + n <= Len(stream)
                /\ IsCanonical(SubSeq(stream, start + 1, start + n)))
              => /\ res = "Ok"
                 /\ to_bytes(vu) = SubSeq(stream, start + 1, start + n)

\* C4 witness: the test's stream was read back to its five bytes.
C4_Witness ==
    /\ call.op = "read_from"
    /\ stream = <<254, 85, 161, 174, 198>>
    /\ start = 0
    /\ res = "Ok"
    /\ to_bytes(vu) = stream

\* C5: read_from on a stream that is exhausted, or that holds fewer bytes after
\* a 0xFD / 0xFE / 0xFF prefix than 2 / 4 / 8, returns an error: no VarUint is
\* returned, no constructor is invoked, nothing is logged.
C5_TruncatedFails ==
    (call.op = "read_from" /\ Truncated) =>
        /\ res = "UnexpectedEof"
        /\ vu = NoVarUint
        /\ via = "none"
        /\ log = <<>>

\* C5 witness: a 0xFF prefix followed by seven bytes was read and refused.
C5_Witness ==
    /\ call.op = "read_from"
    /\ start = 0
    /\ Len(stream) = 8
    /\ stream[1] = 255
    /\ res = "UnexpectedEof"
    /\ vu = NoVarUint

\* C6: on a stream with enough bytes read_from succeeds and consumes exactly
\* 1 byte for a prefix of 0x00..0xFC (the value is the prefix byte), 3 for 0xFD,
\* 5 for 0xFE and 9 for 0xFF (the value is the little-endian integer of the 2 /
\* 4 / 8 bytes after the prefix); the bytes after those stay unread and the
\* stream's bytes are what they were.
C6_DispatchAndConsumption ==
    (call.op = "read_from" /\ ~Truncated) =>
        LET b == stream[start + 1] IN
        /\ res = "Ok"
        /\ pos = start + 1 + PayloadLen(b)
        /\ Len(vu.buf) = 1 + PayloadLen(b)
        /\ vu.value = IF b <= 252 THEN <<b, 0, 0, 0>>
                      ELSE LeValue(stream, start + 1, PayloadLen(b))

\* C6 witness: a 0xFD frame followed by two more bytes was read; three bytes
\* were consumed, the value is 3 + 256 * 2 and two bytes are left.
C6_Witness ==
    /\ call.op = "read_from"
    /\ stream = <<253, 3, 2, 253, 3>>
    /\ start = 0
    /\ pos = 3
    /\ vu.value = <<515, 0, 0, 0>>

\* C7: to_bytes returns a byte sequence equal to encoded and leaves the
\* VarUint, the stream and the read position as they were; a second call
\* returns the same bytes; appending the bytes to a stream does not change the
\* VarUint either.
C7_ToBytesPure ==
    [][ /\ call'.op = "to_bytes" =>
              /\ ret' = vu.buf
              /\ vu' = vu
              /\ stream' = stream
              /\ pos' = pos
              /\ (call.op = "to_bytes" => ret' = ret)
        /\ call'.op = "write" => (vu' = vu /\ stream' = stream \o vu.buf) ]_vars

\* C7 witness: to_bytes was called on a nine-byte VarUint and returned its bytes.
C7_Witness ==
    /\ call.op = "to_bytes"
    /\ Len(vu.buf) = 9
    /\ ret = vu.buf

\* C8: a call that returns a VarUint emits exactly one warning when the value
\* exceeds 999999, carrying the value and the encoded length, and none
\* otherwise; a call that returns none emits none; the VarUint has the length
\* of its constructor's class and a value above 999999 never makes read_from
\* fail on a stream with enough bytes.
C8_WarningAdvisory ==
    /\ Returned =>
          /\ Len(log) = IF Large(vu.value) THEN 1 ELSE 0
          /\ \A i \in 1 .. Len(log) :
                log[i] = [value |-> vu.value, len |-> Len(vu.buf)]
          /\ Len(vu.buf) = WidthLen(Builder)
    /\ ~Returned => log = <<>>
    /\ (call.op = "read_from" /\ ~Truncated) => res = "Ok"
    /\ (call.op = "from_u32" \/ call.op = "from_u64") =>
          (vu.value[1] = call.arg[1] /\ vu.value[2] = call.arg[2])

\* C8 witness: read_from returned 1000000, the first value above the
\* threshold, and logged once.
C8_Witness ==
    /\ call.op = "read_from"
    /\ res = "Ok"
    /\ vu.value = <<16960, 15, 0, 0>>
    /\ Len(log) = 1

\* C9: read_from never returns the InvalidData error: every prefix byte
\* matches one of the four arms, so a call either returns a VarUint or the
\* error of the read that ran out of bytes.
C9_NoInvalidData ==
    call.op = "read_from" =>
        /\ res \in {"Ok", "UnexpectedEof"}
        /\ res = "UnexpectedEof" <=> Truncated

\* C9 witness: the prefix 0xFC, the last of the one-byte class, was read as 252.
C9_Witness ==
    /\ call.op = "read_from"
    /\ Len(stream) > start
    /\ stream[start + 1] = 252
    /\ res = "Ok"
    /\ vu.value = <<252, 0, 0, 0>>

\* Every written VarUint comes from From<u16>, From<u32>, From<u64>, or from
\* From<u8> with v <= 252.
Decodable(ws) == \A i \in 1 .. Len(ws) : Len(ws[i].buf) = 1 => ws[i].buf[1] <= 252

\* C10: a stream that holds the concatenation of the to_bytes outputs of
\* VarUints built by From<u16>, From<u32>, From<u64> or From<u8> with v <= 252
\* is read back by repeated read_from calls as the same VarUints (value and
\* encoded) in the same order; after the k-th one the read position is the sum
\* of the first k encoded lengths; a read_from fails exactly when every written
\* VarUint has been read.
C10_SelfDelimiting ==
    (~external /\ stream = Flatten(written) /\ Decodable(written)) =>
        /\ Len(parsed) <= Len(written)
        /\ parsed = SubSeq(written, 1, Len(parsed))
        /\ pos = SumLen(written, Len(parsed))
        /\ call.op = "read_from" =>
              (res # "Ok" <=> (start = Len(stream) /\ parsed = written))

\* C10 witness: a three-byte and a one-byte VarUint were written and read back,
\* and the next read_from failed at the end of the stream.
C10_Witness ==
    /\ ~external
    /\ Len(written) = 2
    /\ Len(written[1].buf) = 3
    /\ Len(written[2].buf) = 1
    /\ Decodable(written)
    /\ parsed = written
    /\ pos = Len(stream)
    /\ call.op = "read_from"
    /\ res = "UnexpectedEof"
====
